---- MODULE Spec2Model ----
(***************************************************************************)
(* MinioClientWrapper (client.py): credential resolution in the            *)
(* constructor (explicit arguments, Kubernetes secret, Azure Key Vault)    *)
(* and the storage operations that delegate to the held Minio client.      *)
(***************************************************************************)
EXTENDS Integers, Sequences, FiniteSets, TLC

VARIABLES
  args,       \* the arguments the constructor is called with
  k8sEnv,     \* what the cluster answers to the secret lookup
  kvEnv,      \* what the key vault answers to the secret lookup
  pc,         \* "new" before __init__, "ready" once self.client is set, "failed" when __init__ raised
  client,     \* self.client: {} while unset, else {the Minio handle} (the arguments it was built with)
  minioCalls, \* the argument records of the Minio(...) constructor calls made so far
  apiCalls,   \* every call made so far to the cluster API, the key vault API and the Minio constructor
  raised,     \* the exception that escaped the last call, None when it returned
  store,      \* the object store behind the Minio client: its buckets and their objects
  last,       \* the last storage operation: its arguments, underlying calls and result
  prev        \* the storage operation before it

vars == <<args, k8sEnv, kvEnv, pc, client, minioCalls, apiCalls, raised, store, last, prev>>

-----------------------------------------------------------------------------
(* Python values *)

None == "None"

\* Python's `not x` for None and strings
Not(x) == x = None \/ x = ""

NoneTriple == <<None, None, None>>

\* the ValueError of line 19
ConfigError == "ValueError: MinIO credentials could not be found in provided arguments, Kubernetes secrets, or Azure Key Vault."

\* a value a source may hold for one field: missing, empty, or a non-empty
\* string that names the source and the field it came from
FieldValues(tag, f) == {None, "", tag \o "." \o f}

Triples(tag) == { <<h, i, s>> : h \in FieldValues(tag, "host"),
                                i \in FieldValues(tag, "id"),
                                s \in FieldValues(tag, "secret") }

\* an identifier argument: not given, empty, or a name
Names == {None, "", "n"}

-----------------------------------------------------------------------------
(* the two lookups *)

K8sFailures == {"auth_fail", "read_fail", "no_minio_key", "bad_payload", "not_a_record"}

K8sOutcomes == [kind : K8sFailures, rec : {NoneTriple}]
               \cup [kind : {"record"}, rec : Triples("K")]

KvFailures == {"auth_fail", "get_fail", "bad_payload", "not_a_record"}

KvOutcomes == [kind : KvFailures, rec : {NoneTriple}]
              \cup [kind : {"record"}, rec : Triples("V")]

\* the body of the try block of _get_k8s_secret: the calls it makes up to the
\* statement that raises, and what it returns
K8sTry(secret_name, namespace) ==
  CASE k8sEnv.kind = "auth_fail" ->
         [ret |-> NoneTriple, calls |-> <<"load_incluster_config">>, exc |-> "ConfigException"]
    [] k8sEnv.kind = "read_fail" ->
         [ret |-> NoneTriple,
          calls |-> <<"load_incluster_config", "CoreV1Api", "read_namespaced_secret">>,
          exc |-> "ApiException"]
    [] k8sEnv.kind = "no_minio_key" ->
         [ret |-> NoneTriple,
          calls |-> <<"load_incluster_config", "CoreV1Api", "read_namespaced_secret">>,
          exc |-> "KeyError"]
    [] k8sEnv.kind = "bad_payload" ->
         [ret |-> NoneTriple,
          calls |-> <<"load_incluster_config", "CoreV1Api", "read_namespaced_secret">>,
          exc |-> "ValueError"]
    [] k8sEnv.kind = "not_a_record" ->
         [ret |-> NoneTriple,
          calls |-> <<"load_incluster_config", "CoreV1Api", "read_namespaced_secret">>,
          exc |-> "AttributeError"]
    [] OTHER ->
         [ret |-> k8sEnv.rec,
          calls |-> <<"load_incluster_config", "CoreV1Api", "read_namespaced_secret">>,
          exc |-> None]

\* lines 25-32 without the except clause
K8sSecretRaising(secret_name, namespace) == K8sTry(secret_name, namespace)

\* lines 25-32: try: ... except Exception: return None, None, None
_get_k8s_secret(secret_name, namespace) ==
  LET t == K8sTry(secret_name, namespace)
  IN  IF t.exc # None
        THEN [ret |-> NoneTriple, calls |-> t.calls, exc |-> None]
        ELSE t

\* the body of the try block of _get_azure_keyvault_secret
KvTry(keyvault_name) ==
  CASE kvEnv.kind = "auth_fail" ->
         [ret |-> NoneTriple, calls |-> <<"DefaultAzureCredential">>,
          exc |-> "CredentialUnavailableError"]
    [] kvEnv.kind = "get_fail" ->
         [ret |-> NoneTriple,
          calls |-> <<"DefaultAzureCredential", "SecretClient", "get_secret">>,
          exc |-> "HttpResponseError"]
    [] kvEnv.kind = "bad_payload" ->
         [ret |-> NoneTriple,
          calls |-> <<"DefaultAzureCredential", "SecretClient", "get_secret">>,
          exc |-> "ValueError"]
    [] kvEnv.kind = "not_a_record" ->
         [ret |-> NoneTriple,
          calls |-> <<"DefaultAzureCredential", "SecretClient", "get_secret">>,
          exc |-> "AttributeError"]
    [] OTHER ->
         [ret |-> kvEnv.rec,
          calls |-> <<"DefaultAzureCredential", "SecretClient", "get_secret">>,
          exc |-> None]

\* lines 36-43
_get_azure_keyvault_secret(keyvault_name) ==
  LET t == KvTry(keyvault_name)
  IN  IF t.exc # None
        THEN [ret |-> NoneTriple, calls |-> t.calls, exc |-> None]
        ELSE t

-----------------------------------------------------------------------------
(* __init__ *)

\* the condition of lines 12, 15 and 18
Incomplete(t) == Not(t[1]) \/ Not(t[2]) \/ Not(t[3])

\* the locals of __init__ between statements: the triple held in
\* (endpoint, access_key, secret_key), the API calls made, the exception in flight
Locals(t, calls, exc) == [creds |-> t, calls |-> calls, exc |-> exc]

\* lines 12-13 with the cluster secret taking priority over complete explicit arguments
K8sFallbackFirst(l, a) ==
  IF l.exc # None THEN l
  ELSE IF ~Not(a.secret_name) /\ ~Not(a.namespace)
    THEN LET r == _get_k8s_secret(a.secret_name, a.namespace)
         IN  IF Incomplete(r.ret) THEN Locals(l.creds, l.calls \o r.calls, r.exc)
             ELSE Locals(r.ret, l.calls \o r.calls, r.exc)
    ELSE l

\* lines 12-13 filling in only the fields the explicit arguments left empty
K8sFallbackMerge(l, a) ==
  IF l.exc # None THEN l
  ELSE IF Incomplete(l.creds)
    THEN IF ~Not(a.secret_name) /\ ~Not(a.namespace)
           THEN LET r == _get_k8s_secret(a.secret_name, a.namespace)
                IN  Locals([i \in 1..3 |-> IF Not(l.creds[i]) THEN r.ret[i] ELSE l.creds[i]],
                           l.calls \o r.calls, r.exc)
           ELSE l
    ELSE l

\* lines 12-13 without the test of secret_name and namespace
K8sFallbackUnguarded(l, a) ==
  IF l.exc # None THEN l
  ELSE IF Incomplete(l.creds)
    THEN LET r == _get_k8s_secret(a.secret_name, a.namespace)
         IN  Locals(r.ret, l.calls \o r.calls, r.exc)
    ELSE l

\* lines 12-13
K8sFallback(l, a) ==
  IF l.exc # None THEN l
  ELSE IF Incomplete(l.creds)
    THEN IF ~Not(a.secret_name) /\ ~Not(a.namespace)
           THEN LET r == _get_k8s_secret(a.secret_name, a.namespace)
                IN  Locals(r.ret, l.calls \o r.calls, r.exc)
           ELSE Locals(NoneTriple, l.calls, None)
    ELSE l

\* lines 15-16 looking the key vault up before testing whether it is needed
KvFallbackEager(l, a) ==
  IF l.exc # None THEN l
  ELSE IF ~Not(a.keyvault_name)
    THEN LET r == _get_azure_keyvault_secret(a.keyvault_name)
         IN  IF Incomplete(l.creds) THEN Locals(r.ret, l.calls \o r.calls, r.exc)
             ELSE Locals(l.creds, l.calls \o r.calls, r.exc)
    ELSE IF Incomplete(l.creds) THEN Locals(NoneTriple, l.calls, None) ELSE l

\* lines 15-16
KvFallback(l, a) ==
  IF l.exc # None THEN l
  ELSE IF Incomplete(l.creds)
    THEN IF ~Not(a.keyvault_name)
           THEN LET r == _get_azure_keyvault_secret(a.keyvault_name)
                IN  Locals(r.ret, l.calls \o r.calls, r.exc)
           ELSE Locals(NoneTriple, l.calls, None)
    ELSE l

\* lines 18-19 raising only when all three fields are empty
CheckResolvedAllEmpty(l) ==
  IF l.exc # None THEN l
  ELSE IF Not(l.creds[1]) /\ Not(l.creds[2]) /\ Not(l.creds[3])
    THEN Locals(l.creds, l.calls, ConfigError)
    ELSE l

\* lines 18-19
CheckResolved(l) ==
  IF l.exc # None THEN l
  ELSE IF Incomplete(l.creds)
    THEN Locals(l.creds, l.calls, ConfigError)
    ELSE l

\* lines 12-19: the locals when control reaches line 21 or leaves by an exception
Resolve(a) ==
  CheckResolved(
    KvFallback(
      K8sFallback(Locals(<<a.endpoint, a.access_key, a.secret_key>>, <<>>, None), a),
      a))

\* line 21: the arguments Minio(...) is called with
MinioCall(l, a) ==
  [endpoint |-> l.creds[1], access_key |-> l.creds[2], secret_key |-> l.creds[3],
   secure |-> a.secure, cert_check |-> a.cert_check]


\* __init__ (lines 10-21). Minio(...) itself may reject its arguments: minioExc
\* is None when it returns a handle, else the exception it raises.
__init__(a, minioExc) ==
  LET l == Resolve(a)
  IN  IF l.exc # None
        THEN [client |-> {}, minio |-> <<>>, calls |-> l.calls, exc |-> l.exc]
        ELSE [client |-> IF minioExc = None THEN {MinioCall(l, a)} ELSE {},
              minio |-> <<MinioCall(l, a)>>,
              calls |-> l.calls \o <<"Minio">>,
              exc |-> minioExc]

MinioCtorOutcomes == {None, "MinioError"}

Construct ==
  /\ pc = "new"
  /\ \E minioExc \in MinioCtorOutcomes :
       LET r == __init__(args, minioExc)
       IN  /\ pc' = IF r.exc = None THEN "ready" ELSE "failed"
           /\ client' = r.client
           /\ minioCalls' = minioCalls \o r.minio
           /\ apiCalls' = apiCalls \o r.calls
           /\ raised' = r.exc
  /\ UNCHANGED <<args, k8sEnv, kvEnv, store, last, prev>>

-----------------------------------------------------------------------------
(* the object store and the Minio client's methods, as the wrapper uses them *)

\* the largest number of objects the store holds in the model
MaxObjects == 2

BucketNames == {"b1", "b2"}

\* object names and prefixes are sequences of characters
ObjectNames == {<<"a">>, <<"a", "b">>, <<"b">>}

\* prefix=None
NoPrefix == <<"None">>

Prefixes == {NoPrefix, <<"a">>, <<"b">>}

FilePaths == {"./example.txt"}

\* what a call to the store can raise besides what the store's state decides
\* (which is an S3Error): the connection failing
Failures == {"MaxRetryError"}

IsPrefix(p, n) == Len(p) <= Len(n) /\ SubSeq(n, 1, Len(p)) = p

Matches(prefix, n) == prefix = NoPrefix \/ IsPrefix(prefix, n)

Contains(seq, x) == \E i \in 1..Len(seq) : seq[i] = x

RECURSIVE SumLen(_, _)
SumLen(objects, B) ==
  IF B = {} THEN 0
  ELSE LET b == CHOOSE x \in B : TRUE
       IN  Len(objects[b]) + SumLen(objects, B \ {b})

\* the number of objects the store holds
Size(s) == SumLen(s.objects, DOMAIN s.objects)

Remove(seq, x) == SelectSeq(seq, LAMBDA y : y # x)

\* one call of a method of self.client: the method, its arguments, and the
\* exception it raised (None when it returned)
Call(m, a, exc) == [m |-> m, args |-> a, exc |-> exc]

\* an object as list_objects yields it
Object(b, n) == [bucket_name |-> b, object_name |-> n]

\* f is the failure the call meets (None: none)
Minio_bucket_exists(s, b, f) ==
  [store |-> s, ret |-> b \in s.buckets, exc |-> f]

Minio_make_bucket(s, b, f) ==
  IF f # None THEN [store |-> s, exc |-> f]
  ELSE IF b \in s.buckets THEN [store |-> s, exc |-> "S3Error"]
  ELSE [store |-> [s EXCEPT !.buckets = @ \cup {b}], exc |-> None]

Minio_remove_bucket(s, b, f) ==
  IF f # None THEN [store |-> s, exc |-> f]
  ELSE IF b \notin s.buckets \/ s.objects[b] # <<>> THEN [store |-> s, exc |-> "S3Error"]
  ELSE [store |-> [s EXCEPT !.buckets = @ \ {b}], exc |-> None]

Minio_fput_object(s, b, o, path, f) ==
  IF f # None THEN [store |-> s, exc |-> f]
  ELSE IF b \notin s.buckets THEN [store |-> s, exc |-> "S3Error"]
  ELSE [store |-> IF Contains(s.objects[b], o) THEN s
                  ELSE [s EXCEPT !.objects[b] = Append(@, o)],
        exc |-> None]

Minio_fget_object(s, b, o, path, f) ==
  IF f # None THEN [store |-> s, exc |-> f]
  ELSE IF b \notin s.buckets \/ ~Contains(s.objects[b], o) THEN [store |-> s, exc |-> "S3Error"]
  ELSE [store |-> s, exc |-> None]

Minio_remove_object(s, b, o, f) ==
  IF f # None THEN [store |-> s, exc |-> f]
  ELSE IF b \notin s.buckets THEN [store |-> s, exc |-> "S3Error"]
  ELSE [store |-> [s EXCEPT !.objects[b] = Remove(@, o)], exc |-> None]

\* the iterator list_objects returns: the names it yields, in its order, and
\* the exception that ends it; a failure f strikes after failAt names
Minio_list_objects(s, b, prefix, f, failAt) ==
  LET names == IF b \in s.buckets
                 THEN SelectSeq(s.objects[b], LAMBDA n : Matches(prefix, n))
                 ELSE <<>>
      all == [i \in 1..Len(names) |-> Object(b, names[i])]
  IN  IF f # None /\ failAt <= Len(all)
        THEN [yields |-> SubSeq(all, 1, failAt), exc |-> f]
      ELSE IF b \notin s.buckets THEN [yields |-> <<>>, exc |-> "S3Error"]
      ELSE [yields |-> all, exc |-> None]

-----------------------------------------------------------------------------
(* the storage operations of MinioClientWrapper (lines 45-72) *)

\* what a method leaves behind: self.client, the store, the calls it made on
\* self.client (with what list_objects yielded), the calls it made to the
\* credential sources, its return value and the exception it raised
Out(self, s, calls, yielded, ret, exc) ==
  [self |-> self, store |-> s, calls |-> calls, yielded |-> yielded,
   api |-> <<>>, ret |-> ret, exc |-> exc]

\* line 47
bucket_exists(self, s, bucket_name, f) ==
  LET r == Minio_bucket_exists(s, bucket_name, f)
  IN  Out(self, r.store, <<Call("bucket_exists", <<bucket_name>>, r.exc)>>, <<>>,
          IF r.exc = None THEN r.ret ELSE FALSE, r.exc)

\* lines 51-52 without the existence check
create_bucketUnchecked(self, s, bucket_name, f1, f2) ==
  LET m == Minio_make_bucket(s, bucket_name, f2)
  IN  Out(self, m.store, <<Call("make_bucket", <<bucket_name>>, m.exc)>>, <<>>,
          FALSE, m.exc)

\* lines 51-52 going on to make_bucket when the existence check raised
create_bucketIgnoringFailure(self, s, bucket_name, f1, f2) ==
  LET e == bucket_exists(self, s, bucket_name, f1)
  IN  IF e.exc # None \/ ~e.ret
        THEN LET m == Minio_make_bucket(e.store, bucket_name, f2)
             IN  Out(e.self, m.store,
                     e.calls \o <<Call("make_bucket", <<bucket_name>>, m.exc)>>, <<>>,
                     FALSE, m.exc)
        ELSE Out(e.self, e.store, e.calls, <<>>, FALSE, None)

\* lines 51-52
create_bucket(self, s, bucket_name, f1, f2) ==
  LET e == bucket_exists(self, s, bucket_name, f1)
  IN  IF e.exc # None THEN e
      ELSE IF ~e.ret
        THEN LET m == Minio_make_bucket(e.store, bucket_name, f2)
             IN  Out(e.self, m.store,
                     e.calls \o <<Call("make_bucket", <<bucket_name>>, m.exc)>>, <<>>,
                     FALSE, m.exc)
        ELSE Out(e.self, e.store, e.calls, <<>>, FALSE, None)

\* line 56 looking the credentials up again and rebuilding self.client when
\* the upload fails
upload_fileRefreshing(self, s, bucket_name, object_name, file_path, f) ==
  LET r == Minio_fput_object(s, bucket_name, object_name, file_path, f)
      o == Out(self, r.store,
               <<Call("fput_object", <<<<bucket_name>>, object_name, <<file_path>>>>, r.exc)>>,
               <<>>, FALSE, r.exc)
  IN  IF r.exc = None THEN o
      ELSE [o EXCEPT !.api = <<"DefaultAzureCredential", "SecretClient", "get_secret", "Minio">>,
                     !.self = {[m EXCEPT !.endpoint = "V.host", !.access_key = "V.id",
                                         !.secret_key = "V.secret"] : m \in self}]

\* line 56
upload_file(self, s, bucket_name, object_name, file_path, f) ==
  LET r == Minio_fput_object(s, bucket_name, object_name, file_path, f)
  IN  Out(self, r.store,
          <<Call("fput_object", <<<<bucket_name>>, object_name, <<file_path>>>>, r.exc)>>,
          <<>>, FALSE, r.exc)

\* line 60
download_file(self, s, bucket_name, object_name, file_path, f) ==
  LET r == Minio_fget_object(s, bucket_name, object_name, file_path, f)
  IN  Out(self, r.store,
          <<Call("fget_object", <<<<bucket_name>>, object_name, <<file_path>>>>, r.exc)>>,
          <<>>, FALSE, r.exc)

\* line 64 returning the names sorted by length instead of in the order yielded
list_objectsReordered(self, s, bucket_name, prefix, f, failAt) ==
  LET it == Minio_list_objects(s, bucket_name, prefix, f, failAt)
      names == [i \in 1..Len(it.yields) |-> it.yields[i].object_name]
  IN  Out(self, s,
          <<Call("list_objects", <<<<bucket_name>>, prefix>>, it.exc)>>,
          it.yields,
          IF it.exc = None
            THEN SelectSeq(names, LAMBDA n : Len(n) = 1) \o SelectSeq(names, LAMBDA n : Len(n) # 1)
            ELSE <<>>,
          it.exc)

\* line 64: [obj.object_name for obj in self.client.list_objects(bucket_name, prefix=prefix)]
list_objects(self, s, bucket_name, prefix, f, failAt) ==
  LET it == Minio_list_objects(s, bucket_name, prefix, f, failAt)
  IN  Out(self, s,
          <<Call("list_objects", <<<<bucket_name>>, prefix>>, it.exc)>>,
          it.yields,
          IF it.exc = None
            THEN [i \in 1..Len(it.yields) |-> it.yields[i].object_name]
            ELSE <<>>,
          it.exc)

\* line 68
delete_object(self, s, bucket_name, object_name, f) ==
  LET r == Minio_remove_object(s, bucket_name, object_name, f)
  IN  Out(self, r.store,
          <<Call("remove_object", <<<<bucket_name>>, object_name>>, r.exc)>>,
          <<>>, FALSE, r.exc)

\* line 72
delete_bucket(self, s, bucket_name, f) ==
  LET r == Minio_remove_bucket(s, bucket_name, f)
  IN  Out(self, r.store, <<Call("remove_bucket", <<bucket_name>>, r.exc)>>, <<>>,
          FALSE, r.exc)

-----------------------------------------------------------------------------
(* the caller *)

MaybeFail == {None} \cup Failures

NoOp == [op |-> "none", bucket |-> None, object |-> <<>>, prefix |-> NoPrefix,
         existed |-> FALSE, calls |-> <<>>, yielded |-> <<>>, ret |-> FALSE, exc |-> None]

\* what is kept of the operation before the last one
NoPrev == [op |-> "none", bucket |-> None, existed |-> FALSE, calls |-> <<>>, exc |-> None]

Summary(l) ==
  IF l.op = "create_bucket"
    THEN [op |-> l.op, bucket |-> l.bucket, existed |-> l.existed,
          calls |-> l.calls, exc |-> l.exc]
    ELSE [op |-> "other", bucket |-> None, existed |-> FALSE, calls |-> <<>>, exc |-> None]

\* the caller calls a method of a constructed wrapper and it returns or raises
Apply(op, b, o, prefix, out) ==
  /\ client' = out.self
  /\ store' = out.store
  /\ apiCalls' = apiCalls \o out.api
  /\ raised' = out.exc
  /\ last' = [op |-> op, bucket |-> b, object |-> o, prefix |-> prefix,
              existed |-> b \in store.buckets, calls |-> out.calls, yielded |-> out.yielded,
              ret |-> out.ret, exc |-> out.exc]
  /\ prev' = Summary(last)
  /\ UNCHANGED <<args, k8sEnv, kvEnv, pc, minioCalls>>

BucketExists ==
  /\ pc = "ready"
  /\ \E b \in BucketNames, f \in MaybeFail :
       Apply("bucket_exists", b, <<>>, NoPrefix, bucket_exists(client, store, b, f))

CreateBucket ==
  /\ pc = "ready"
  /\ \E b \in BucketNames, f1 \in MaybeFail, f2 \in MaybeFail :
       Apply("create_bucket", b, <<>>, NoPrefix, create_bucket(client, store, b, f1, f2))

DeleteBucket ==
  /\ pc = "ready"
  /\ \E b \in BucketNames, f \in MaybeFail :
       Apply("delete_bucket", b, <<>>, NoPrefix, delete_bucket(client, store, b, f))

UploadFile ==
  /\ pc = "ready"
  /\ \E b \in BucketNames, o \in ObjectNames, path \in FilePaths, f \in MaybeFail :
       /\ Size(store) < MaxObjects \/ Contains(store.objects[b], o)
       /\ Apply("upload_file", b, o, NoPrefix, upload_file(client, store, b, o, path, f))

DownloadFile ==
  /\ pc = "ready"
  /\ \E b \in BucketNames, o \in ObjectNames, path \in FilePaths, f \in MaybeFail :
       Apply("download_file", b, o, NoPrefix, download_file(client, store, b, o, path, f))

ListObjects ==
  /\ pc = "ready"
  /\ \E b \in BucketNames, prefix \in Prefixes, f \in MaybeFail, failAt \in 0..MaxObjects :
       /\ f = None => failAt = 0
       /\ Apply("list_objects", b, <<>>, prefix, list_objects(client, store, b, prefix, f, failAt))

DeleteObject ==
  /\ pc = "ready"
  /\ \E b \in BucketNames, o \in ObjectNames, f \in MaybeFail :
       Apply("delete_object", b, o, NoPrefix, delete_object(client, store, b, o, f))

-----------------------------------------------------------------------------
(* specifications *)

InitRest ==
  /\ pc = "new"
  /\ client = {}
  /\ minioCalls = <<>>
  /\ apiCalls = <<>>
  /\ raised = None
  /\ last = NoOp
  /\ prev = NoPrev

EmptyStore == [buckets |-> {}, objects |-> [b \in BucketNames |-> <<>>]]

\* every combination of constructor arguments and source answers
ArgSets ==
  { [endpoint |-> e, access_key |-> k, secret_key |-> x,
     secret_name |-> sn, namespace |-> ns, keyvault_name |-> kv,
     secure |-> fl, cert_check |-> fl] :
      e \in FieldValues("E", "host"), k \in FieldValues("E", "id"),
      x \in FieldValues("E", "secret"),
      sn \in Names, ns \in Names, kv \in Names, fl \in BOOLEAN }

InitResolve ==
  /\ args \in ArgSets
  /\ k8sEnv \in K8sOutcomes
  /\ kvEnv \in KvOutcomes
  /\ store = EmptyStore
  /\ InitRest

\* the constructor alone, over every input
SpecResolve == InitResolve /\ [][Construct]_vars

NoArgs ==
  [endpoint |-> None, access_key |-> None, secret_key |-> None,
   secret_name |-> None, namespace |-> None, keyvault_name |-> None,
   secure |-> TRUE, cert_check |-> TRUE]

\* the four constructions of the example usage (lines 77, 83, 89, 95)
ExampleArgs ==
  { [NoArgs EXCEPT !.endpoint = "E.host", !.access_key = "E.id", !.secret_key = "E.secret"],
    [NoArgs EXCEPT !.secret_name = "n", !.namespace = "n", !.keyvault_name = "n"],
    [NoArgs EXCEPT !.secret_name = "n", !.namespace = "n", !.cert_check = FALSE],
    [NoArgs EXCEPT !.keyvault_name = "n", !.secure = FALSE] }

Complete(tag) == <<tag \o ".host", tag \o ".id", tag \o ".secret">>

Init ==
  /\ args \in ExampleArgs
  /\ k8sEnv = [kind |-> "record", rec |-> Complete("K")]
  /\ kvEnv = [kind |-> "record", rec |-> Complete("V")]
  /\ store = EmptyStore
  /\ InitRest

Next ==
  \/ Construct
  \/ BucketExists
  \/ CreateBucket
  \/ DeleteBucket
  \/ UploadFile
  \/ DownloadFile
  \/ ListObjects
  \/ DeleteObject

\* the example constructions followed by any sequence of storage operations
Spec == Init /\ [][Next]_vars

-----------------------------------------------------------------------------
(* what the sources hold, stated apart from the code *)

NonEmpty(x) == x \notin {None, ""}

IsComplete(t) == NonEmpty(t[1]) /\ NonEmpty(t[2]) /\ NonEmpty(t[3])

IsPartial(t) == ~IsComplete(t) /\ (NonEmpty(t[1]) \/ NonEmpty(t[2]) \/ NonEmpty(t[3]))

K8sNamed == NonEmpty(args.secret_name) /\ NonEmpty(args.namespace)

KvNamed == NonEmpty(args.keyvault_name)

\* the triple each source yields for this construction
Yield(src) ==
  CASE src = "explicit" -> <<args.endpoint, args.access_key, args.secret_key>>
    [] src = "k8s" -> IF K8sNamed /\ k8sEnv.kind = "record" THEN k8sEnv.rec ELSE NoneTriple
    [] src = "kv" -> IF KvNamed /\ kvEnv.kind = "record" THEN kvEnv.rec ELSE NoneTriple

Sources == <<"explicit", "k8s", "kv">>

\* the highest-priority source that yields a complete triple, 0 when none does
Winner ==
  IF \E i \in 1..3 : IsComplete(Yield(Sources[i]))
    THEN CHOOSE i \in 1..3 : /\ IsComplete(Yield(Sources[i]))
                             /\ \A j \in 1..(i - 1) : ~IsComplete(Yield(Sources[j]))
    ELSE 0

Constructed == pc # "new"

TripleOf(m) == <<m.endpoint, m.access_key, m.secret_key>>

K8sApi == {"load_incluster_config", "CoreV1Api", "read_namespaced_secret"}

KvApi == {"DefaultAzureCredential", "SecretClient", "get_secret"}

Called(apis) == \E i \in 1..Len(apiCalls) : apiCalls[i] \in apis

K8sThrew == K8sNamed /\ k8sEnv.kind # "record"

KvThrew == KvNamed /\ kvEnv.kind # "record"

-----------------------------------------------------------------------------
(* claims about the constructor, checked under SpecResolve *)

\* C1: once __init__ has run, Minio(...) has been called with the triple of a
\* source if and only if that source is the highest-priority one that yields
\* a complete triple; it is called at most once.
C1_PriorityOrder ==
  Constructed =>
    /\ Len(minioCalls) <= 1
    /\ \A i \in 1..3 :
         (minioCalls # <<>> /\ TripleOf(minioCalls[1]) = Yield(Sources[i])) <=> (Winner = i)

C1_Witness ==
  /\ pc = "ready"
  /\ IsPartial(Yield("explicit"))
  /\ IsComplete(Yield("kv"))
  /\ Winner = 2
  /\ \E m \in client : TripleOf(m) = k8sEnv.rec

\* C2: a source below the one that yielded a complete triple is never
\* consulted: with complete explicit arguments neither the cluster API nor the
\* key vault API is called, and with a complete cluster secret the key vault
\* API is not called, whatever keyvault_name is.
C2_ShortCircuit ==
  Constructed =>
    /\ Winner = 1 => ~Called(K8sApi) /\ ~Called(KvApi)
    /\ Winner = 2 => ~Called(KvApi)

C2_Witness ==
  /\ pc = "ready"
  /\ Winner = 2
  /\ KvNamed
  /\ IsComplete(kvEnv.rec)
  /\ Called(K8sApi)
  /\ ~Called(KvApi)

\* C3: an exception inside either lookup never leaves __init__: after a
\* throwing cluster lookup the key vault is consulted when it is named, and
\* the constructor ends as the key vault's answer decides; after a throwing
\* key vault lookup the constructor raises the configuration error.
C3_LookupErrorsSwallowed ==
  Constructed =>
    /\ raised \in {None, ConfigError, "MinioError"}
    /\ (Called(K8sApi) /\ K8sThrew) =>
         /\ KvNamed => Called(KvApi)
         /\ IsComplete(Yield("kv")) <=> minioCalls # <<>>
         /\ ~IsComplete(Yield("kv")) <=> raised = ConfigError
    /\ (Called(KvApi) /\ KvThrew) => raised = ConfigError /\ minioCalls = <<>>

C3_Witness ==
  /\ pc = "ready"
  /\ K8sThrew
  /\ k8sEnv.kind = "bad_payload"
  /\ Called(K8sApi)
  /\ Called(KvApi)
  /\ \E m \in client : TripleOf(m) = kvEnv.rec

\* C4: when no source yields a complete triple __init__ raises the
\* configuration error, Minio(...) is never called and no client is held;
\* when some source does, __init__ does not raise the configuration error.
C4_ConfigurationError ==
  Constructed =>
    /\ Winner = 0 => /\ raised = ConfigError
                     /\ pc = "failed"
                     /\ minioCalls = <<>>
                     /\ client = {}
                     /\ ~Called({"Minio"})
    /\ Winner # 0 => raised # ConfigError

C4_Witness ==
  /\ pc = "failed"
  /\ raised = ConfigError
  /\ Winner = 0
  /\ IsPartial(Yield("explicit"))
  /\ IsPartial(Yield("k8s"))
  /\ IsPartial(Yield("kv"))
  /\ minioCalls = <<>>

\* C5: a source that yields a partial triple is passed over whole and the
\* next named source is consulted; the triple Minio(...) receives is complete
\* and is the whole triple of one source, never fields of several.
C5_NoMixing ==
  Constructed =>
    /\ \A k \in 1..Len(minioCalls) :
         /\ IsComplete(TripleOf(minioCalls[k]))
         /\ \E i \in 1..3 : TripleOf(minioCalls[k]) = Yield(Sources[i])
    /\ (IsPartial(Yield("explicit")) /\ K8sNamed) => Called(K8sApi)
    /\ (~IsComplete(Yield("explicit")) /\ IsPartial(Yield("k8s")) /\ KvNamed) => Called(KvApi)

C5_Witness ==
  /\ pc = "ready"
  /\ IsPartial(Yield("explicit"))
  /\ IsPartial(Yield("k8s"))
  /\ \E m \in client : TripleOf(m) = kvEnv.rec

\* C7: a source is contacted only when it is named: the cluster API only with
\* secret_name and namespace both non-empty, the key vault only with
\* keyvault_name non-empty; with incomplete explicit arguments and no source
\* named, __init__ raises the configuration error having called no API.
C7_NoCallsUnlessNamed ==
  Constructed =>
    /\ Called(K8sApi) => K8sNamed
    /\ Called(KvApi) => KvNamed
    /\ (~IsComplete(Yield("explicit")) /\ ~K8sNamed /\ ~KvNamed) =>
         apiCalls = <<>> /\ raised = ConfigError

C7_Witness ==
  /\ pc = "failed"
  /\ Yield("explicit") = NoneTriple
  /\ args.secret_name = None
  /\ args.namespace = None
  /\ args.keyvault_name = None
  /\ apiCalls = <<>>
  /\ raised = ConfigError
  /\ k8sEnv.kind = "record"
  /\ IsComplete(k8sEnv.rec)

-----------------------------------------------------------------------------
(* claims about the storage operations, checked under Spec *)

\* the calls of method m among calls
CallsOf(calls, m) == Cardinality({i \in 1..Len(calls) : calls[i].m = m})

\* the last two operations were create_bucket on the same name
CreatedTwice ==
  /\ prev.op = "create_bucket"
  /\ last.op = "create_bucket"
  /\ prev.bucket = last.bucket

MakeCalls == CallsOf(prev.calls, "make_bucket") + CallsOf(last.calls, "make_bucket")

Delegate(op) ==
  CASE op = "bucket_exists" -> "bucket_exists"
    [] op = "create_bucket" -> "bucket_exists"
    [] op = "delete_bucket" -> "remove_bucket"
    [] op = "upload_file" -> "fput_object"
    [] op = "download_file" -> "fget_object"
    [] op = "list_objects" -> "list_objects"
    [] op = "delete_object" -> "remove_object"

\* a failed call is the last call, and the operation raises exactly what its
\* last call raised
FailureEndsOperation ==
  /\ \A i \in 1..(Len(last.calls) - 1) : last.calls[i].exc = None
  /\ last.exc = last.calls[Len(last.calls)].exc
  /\ raised = last.exc

\* C8 as stated: every operation makes a single call on the underlying client,
\* and a failure of that call ends the operation and is what it raises.
C8_AsStated ==
  last.op # "none" =>
    /\ Len(last.calls) = 1
    /\ FailureEndsOperation

\* C8 (amended): every operation other than create_bucket makes exactly one
\* call on the underlying client, the method it delegates to; create_bucket
\* makes one bucket_exists call and, only when that returned False, one
\* make_bucket call after it. No method is called twice in one operation, no
\* call follows a call that raised, and the operation raises exactly what its
\* last call raised.
C8_SingleCallNoRetry ==
  last.op # "none" =>
    /\ Len(last.calls) >= 1
    /\ last.calls[1].m = Delegate(last.op)
    /\ last.op # "create_bucket" => Len(last.calls) = 1
    /\ last.op = "create_bucket" =>
         /\ Len(last.calls) <= 2
         /\ Len(last.calls) = 2 =>
              /\ last.calls[2].m = "make_bucket"
              /\ ~last.existed
    /\ FailureEndsOperation

C8_Witness ==
  /\ last.op = "create_bucket"
  /\ Len(last.calls) = 1
  /\ last.calls[1].exc = "MaxRetryError"
  /\ raised = "MaxRetryError"
  /\ ~last.existed
  /\ last.bucket \notin store.buckets

\* C9: list_objects(bucket, prefix) returns one name per object the
\* underlying iterator yielded, in the order yielded; every name returned
\* matches the prefix, and the names are those of the bucket's objects that
\* match it.
C9_ListOrder ==
  (last.op = "list_objects" /\ last.exc = None) =>
    /\ Len(last.ret) = Len(last.yielded)
    /\ \A i \in 1..Len(last.ret) : last.ret[i] = last.yielded[i].object_name
    /\ \A i \in 1..Len(last.ret) : Matches(last.prefix, last.ret[i])
    /\ last.calls[1].args = <<<<last.bucket>>, last.prefix>>
    /\ last.ret = SelectSeq(store.objects[last.bucket], LAMBDA n : Matches(last.prefix, n))

C9_Witness ==
  /\ last.op = "list_objects"
  /\ last.exc = None
  /\ last.prefix = <<"a">>
  /\ last.ret = << <<"a", "b">>, <<"a">> >>

\* C10: once construction has succeeded, no storage operation, returning or
\* raising, changes self.client, calls the cluster API, the key vault API or
\* the Minio constructor again.
C10_ResolvedOnce ==
  [][pc = "ready" => /\ client' = client
                     /\ apiCalls' = apiCalls
                     /\ minioCalls' = minioCalls
                     /\ pc' = "ready"]_vars

C10_Witness ==
  /\ pc = "ready"
  /\ prev.op = "create_bucket"
  /\ last.op = "upload_file"
  /\ raised = "S3Error"
  /\ Called(K8sApi)
  /\ \E m \in client : TripleOf(m) = k8sEnv.rec

====
